---- MODULE Spec2Model ----
(***************************************************************************)
(* Session lifecycle and streaming-query execution of mcp-coding-agents:   *)
(* the SQLite session store, the session manager built on it, the Claude   *)
(* Code query executor (handleClaudeCodeQuery) and the SSE stream route.   *)
(***************************************************************************)
EXTENDS Integers, Sequences, FiniteSets, TLC

(* ------------------------------ bounds -------------------------------- *)
MaxTime == 3
MaxMsgs == 2
MaxKeepAlive == 1
MaxActivity == 2
MaxRows == 101

\* the session ids randomUUID() can return, and the concurrent /stream requests
SessionIds == {"s1", "s2"}
Streams == {1, 2}

(* config.sessionTimeout of the session manager, in clock ticks *)
SessionTimeout == 2

NoSid == "none"

VARIABLES
  now,            \* wall clock (new Date())
  maxSessions,    \* this.config.maxSessions
  impl,           \* the ClaudeCodeSessionManager in use: "sqlite" (store-backed) or "memory" (Map)
  sessions,       \* rows of table `sessions` (the Map `sessions` when in memory), keyed by sessionId
  msgTable,       \* rows of table `messages`, in insertion (id) order
  usedIds,        \* session ids randomUUID() has already returned
  lastOp,         \* last session-manager call made by a REST route and its return value
  claudeQuery,    \* module-level `claudeQuery` of the agent module is loaded
  rpc,            \* per stream: position of the /stream route handler
  target,         \* per stream: req.params.id
  prompt,         \* per stream: req.body.prompt ("" or "Hello")
  timeout,        \* per stream: req.body.timeout || 0
  written,        \* per stream: the chunks given to res.write, in order
  ended,          \* per stream: number of res.end() calls
  keepAlive,      \* per stream: the keepalive interval is armed
  kaTicks,        \* per stream: keepalive ticks that have fired
  queryStarted,
  queryCompleted,
  aborted,        \* per stream: abortController.signal.aborted of the route
  fired,          \* per stream: transport events that have been emitted
  epc,            \* per stream: position inside handleClaudeCodeQuery
  messages,       \* per stream: messages[] of the execution
  sequence,       \* per stream: sequence counter of the execution
  timeoutHandle,  \* per stream: "none" | "armed" | "fired" | "cleared"
  handleAborted,  \* per stream: queryOptions.abortController.signal.aborted
  listening,      \* per stream: the executor's 'abort' listener is registered
  outcome,        \* per stream: what handleClaudeCodeQuery returned (or that it threw)
  causes,         \* per stream: cancellation sources in the order they fired
  dropped         \* per stream: the sequence numbers whose saveMessage stored nothing

storeVars == <<now, maxSessions, impl, sessions, msgTable, usedIds, lastOp>>
relayVars == <<rpc, target, prompt, timeout, written, ended, keepAlive, kaTicks,
               queryStarted, queryCompleted, aborted, fired>>
execVars == <<claudeQuery, epc, messages, sequence, timeoutHandle, handleAborted,
              listening, outcome, causes, dropped>>
vars == <<storeVars, relayVars, execVars>>

(* ------------------------- SQLiteSessionStore ------------------------- *)

\* INSERT INTO sessions; a duplicate primary key raises and inserts nothing
createSessionRow(tbl, id, rec) ==
  IF id \in DOMAIN tbl THEN tbl ELSE tbl @@ (id :> rec)

\* SELECT * FROM sessions WHERE sessionId = ?  (pure read)
hasSession(tbl, id) == id \in DOMAIN tbl

\* the status column of the row of id ("absent" when there is no row)
StatusOf(tbl, id) == IF hasSession(tbl, id) THEN tbl[id].status ELSE "absent"

\* UPDATE sessions SET <supplied fields> WHERE sessionId = ?
updateSession(tbl, id, updates) ==
  IF id \notin DOMAIN tbl \/ DOMAIN updates = {} THEN tbl
  ELSE [tbl EXCEPT ![id] =
          [f \in DOMAIN tbl[id] |->
              IF f \in DOMAIN updates THEN updates[f] ELSE tbl[id][f]]]

\* SELECT * FROM sessions [WHERE status = ?]; the ids of the rows returned
listSessionIds(tbl, status) ==
  {i \in DOMAIN tbl : status = "any" \/ tbl[i].status = status}

\* the sequence s without the elements that fail Keep
FilterMsgs(s, ids) == SelectSeq(s, LAMBDA r : r.sessionId \in ids)

\* a DELETE without the status test
expiredIdsAnyStatus(tbl, before) == {i \in DOMAIN tbl : tbl[i].expiresAt < before}

\* DELETE FROM sessions WHERE expiresAt < ? AND status != 'ended'
expiredIds(tbl, before) ==
  {i \in DOMAIN tbl : tbl[i].expiresAt < before /\ tbl[i].status # "ended"}

cleanupExpiredSessions(tbl, before) ==
  [i \in DOMAIN tbl \ expiredIds(tbl, before) |-> tbl[i]]

\* FOREIGN KEY (sessionId) ... ON DELETE CASCADE, as the schema declares it (SQLite
\* applies it only on a connection whose foreign_keys setting is on)
cascadeMessages(msgs, tbl) == FilterMsgs(msgs, DOMAIN tbl)

\* JSON.stringify(message): the properties whose value is undefined are left out; on a
\* message that is a JSON value (what the agent yields) the text determines the message
stringify(message) ==
  [f \in {g \in DOMAIN message : g = "is_error" \/ message[g] # "undefined"} |-> message[f]]

\* saveMessage storing a 0-based sequence number
saveMessageOffByOne(msgs, tbl, sid, message, seq, source, raises) ==
  IF raises \/ sid \notin DOMAIN tbl THEN msgs
  ELSE Append(msgs, [sessionId |-> sid, messageType |-> message.type,
                     content |-> stringify(message), sequence |-> seq - 1,
                     source |-> source])

\* INSERT INTO messages; a failing stmt.run is logged and swallowed
saveMessage(msgs, tbl, sid, message, seq, source, raises) ==
  IF raises \/ sid \notin DOMAIN tbl THEN msgs
  ELSE Append(msgs, [sessionId |-> sid, messageType |-> message.type,
                     content |-> stringify(message), sequence |-> seq, source |-> source])

\* a message JSON.stringify cannot serialise (a circular object), or no object at all
Malformed ==
  [type |-> "malformed", session_id |-> NoSid, is_error |-> FALSE, result |-> "", text |-> ""]

\* saveMessage throws to its caller: `message.type` and JSON.stringify(message) are
\* evaluated before the try block, which wraps stmt.run only
saveMessageThrows(message) == message = Malformed

\* SELECT COUNT(*) FROM messages WHERE sessionId = ?
getMessageCount(msgs, sid) == Len(FilterMsgs(msgs, {sid}))

\* the default of getMessages' parameter `limit`
DefaultLimit == 100

\* a getMessages without its ORDER BY: rows come in insertion order
getMessagesUnordered(msgs, sid, limit, offset) ==
  LET rows == FilterMsgs(msgs, {sid})
      hi == IF offset + limit < Len(rows) THEN offset + limit ELSE Len(rows)
  IN  [p \in 1..(IF hi > offset THEN hi - offset ELSE 0) |-> rows[offset + p]]

\* SELECT * FROM messages WHERE sessionId = ? ORDER BY sequence ASC LIMIT ? OFFSET ?
\* (rows of equal sequence in id order, as the (sessionId, sequence) index yields them)
getMessages(msgs, sid, limit, offset) ==
  LET rows == FilterMsgs(msgs, {sid})
      n == Len(rows)
      rank == [j \in 1..n |->
                 Cardinality({i \in 1..n : \/ rows[i].sequence < rows[j].sequence
                                           \/ rows[i].sequence = rows[j].sequence /\ i < j}) + 1]
              \o << >>
      at == [p \in 1..n |-> CHOOSE j \in 1..n : rank[j] = p] \o << >>
      hi == IF offset + limit < n THEN offset + limit ELSE n
  IN  [p \in 1..(IF hi > offset THEN hi - offset ELSE 0) |-> rows[at[offset + p]]]

(* ---------------------- ClaudeCodeSessionManager ---------------------- *)

newSession(t) ==
  [status |-> "active", createdAt |-> t, expiresAt |-> t + SessionTimeout,
   lastActivity |-> t, messageCount |-> 0, claudeSessionId |-> NoSid]

\* a getSession that only reads
getSessionStoreNoWrite(tbl, id, t) == tbl

\* getSession: what the call leaves in the store
getSessionStore(tbl, id, t) ==
  IF hasSession(tbl, id) /\ tbl[id].expiresAt < t
  THEN updateSession(tbl, id, [status |-> "expired"])
  ELSE tbl

\* getSession: what the call returns ("null" when the row is absent)
getSessionResult(tbl, id, t) ==
  IF ~hasSession(tbl, id) THEN "null"
  ELSE IF tbl[id].expiresAt < t THEN [tbl[id] EXCEPT !.status = "expired"]
  ELSE tbl[id]

\* a listSessions that trusts the stored status
listSessionsResultNoFilter(tbl, t) == listSessionIds(tbl, "active")

\* listSessions: the ids of the sessions returned
listSessionsResult(tbl, t) ==
  {i \in listSessionIds(tbl, "active") : tbl[i].expiresAt >= t}

\* an updateActivity that ignores the stored status
updateActivityAnyStatus(tbl, id, t) ==
  IF hasSession(tbl, id)
  THEN updateSession(tbl, id, [lastActivity |-> t, expiresAt |-> t + SessionTimeout,
                               messageCount |-> tbl[id].messageCount + 1])
  ELSE tbl

\* an updateActivity that sets the expiry to now, without the TTL
updateActivityNoExtension(tbl, id, t) ==
  IF hasSession(tbl, id) /\ tbl[id].status = "active"
  THEN updateSession(tbl, id, [lastActivity |-> t, expiresAt |-> t,
                               messageCount |-> tbl[id].messageCount + 1])
  ELSE tbl

\* an updateActivity that writes the count of a fresh session plus one
updateActivityLostUpdate(tbl, id, t) ==
  IF hasSession(tbl, id) /\ tbl[id].status = "active"
  THEN updateSession(tbl, id, [lastActivity |-> t, expiresAt |-> t + SessionTimeout,
                               messageCount |-> 1])
  ELSE tbl

updateActivity(tbl, id, t) ==
  IF hasSession(tbl, id) /\ tbl[id].status = "active"
  THEN updateSession(tbl, id, [lastActivity |-> t, expiresAt |-> t + SessionTimeout,
                               messageCount |-> tbl[id].messageCount + 1])
  ELSE tbl

\* an updateClaudeSessionId that inserts the row it does not find
updateClaudeSessionIdUpsert(tbl, id, claudeSessionId) ==
  IF hasSession(tbl, id) THEN updateSession(tbl, id, [claudeSessionId |-> claudeSessionId])
  ELSE tbl @@ (id :> [newSession(0) EXCEPT !.claudeSessionId = claudeSessionId])

updateClaudeSessionId(tbl, id, claudeSessionId) ==
  IF hasSession(tbl, id) THEN updateSession(tbl, id, [claudeSessionId |-> claudeSessionId])
  ELSE tbl

\* endSession: what the call leaves in the store
endSessionStore(tbl, id) ==
  IF hasSession(tbl, id) THEN updateSession(tbl, id, [status |-> "ended"]) ELSE tbl

\* endSession: what the call returns
endSessionResult(tbl, id) == hasSession(tbl, id)

(* --------------- ClaudeCodeSessionManager kept in memory -------------- *)
\* (getSession, listSessions, updateActivity and updateClaudeSessionId act on the Map
\* as their store-backed namesakes act on the table)

\* updateActivity: lastActivity is taken from `new Date()` (t1), the new expiry from a
\* second reading of the clock, `Date.now()` (t2)
memUpdateActivity(tbl, id, t1, t2) ==
  IF hasSession(tbl, id) /\ tbl[id].status = "active"
  THEN updateSession(tbl, id, [lastActivity |-> t1, expiresAt |-> t2 + SessionTimeout,
                               messageCount |-> tbl[id].messageCount + 1])
  ELSE tbl

\* endSession: this.sessions.delete(sessionId)
memEndSession(tbl, id) == [i \in DOMAIN tbl \ {id} |-> tbl[i]]

\* cleanupExpiredSessions: every entry with expiresAt < now is deleted
memExpiredIds(tbl, before) == {i \in DOMAIN tbl : tbl[i].expiresAt < before}

memCleanupExpiredSessions(tbl, before) ==
  [i \in DOMAIN tbl \ memExpiredIds(tbl, before) |-> tbl[i]]

\* a quota test that never finds the limit reached
quotaCountNone(tbl, im) == 0

\* the number createSession compares with maxSessions:
\* store.listSessions('active').length, or this.sessions.size
quotaCount(tbl, im) ==
  IF im = "sqlite" THEN Cardinality(listSessionIds(tbl, "active"))
  ELSE Cardinality(DOMAIN tbl)

(* ----------------- handleClaudeCodeQuery (the executor) --------------- *)

\* the messages the agent's sequence can yield
Messages ==
  { [type |-> "system",    session_id |-> "sidA", is_error |-> FALSE, result |-> "", text |-> ""],
    [type |-> "assistant", session_id |-> NoSid,  is_error |-> FALSE, result |-> "", text |-> "thinking"],
    [type |-> "assistant", session_id |-> "sidB", is_error |-> FALSE, result |-> "", text |-> ""],
    [type |-> "result",    session_id |-> "sidA", is_error |-> FALSE, result |-> "Hi there", text |-> ""],
    [type |-> "result",    session_id |-> NoSid,  is_error |-> TRUE,  result |-> "", text |-> ""] }

\* for (const msg of messages) if ('session_id' in msg) { claudeSessionId = msg.session_id; break }
RECURSIVE firstSessionId(_)
firstSessionId(msgs) ==
  IF msgs = << >> THEN NoSid
  ELSE IF Head(msgs).session_id # NoSid THEN Head(msgs).session_id
       ELSE firstSessionId(Tail(msgs))

\* messages.filter(m => m.type === 'assistant').pop(), then its first text block ("" if none)
RECURSIVE lastAssistantText(_)
lastAssistantText(msgs) ==
  IF msgs = << >> THEN ""
  ELSE IF msgs[Len(msgs)].type = "assistant" THEN msgs[Len(msgs)].text
       ELSE lastAssistantText(SubSeq(msgs, 1, Len(msgs) - 1))

\* resultSummary without the `if (signal?.aborted)` branch
resultSummaryNoCancel(msgs, signalAborted) ==
  IF msgs # << >> /\ msgs[Len(msgs)].type = "result"
  THEN (IF msgs[Len(msgs)].result # "" THEN msgs[Len(msgs)].result ELSE "Query completed")
  ELSE ""

\* result.summary of the normal path ("" when result is undefined)
resultSummary(msgs, signalAborted) ==
  IF signalAborted THEN "Query cancelled by user"
  ELSE IF msgs # << >> /\ msgs[Len(msgs)].type = "result"
       THEN (IF msgs[Len(msgs)].result # "" THEN msgs[Len(msgs)].result ELSE "Query completed")
       ELSE ""

\* what the try block returns once the loop is left (sequence exhausted, or break)
completionResponse(msgs, signalAborted) ==
  LET summary == resultSummary(msgs, signalAborted) IN
  [kind |-> "result",
   text |-> IF summary # "" THEN summary
            ELSE IF lastAssistantText(msgs) # "" THEN lastAssistantText(msgs)
            ELSE "Query completed but no result text was available",
   session_id |-> firstSessionId(msgs)]

\* the success flag a caller can read off the returned object: the try block answers
\* {result, session_id}, the catch block {error, session_id}; result.success is computed
\* and logged but is not a field of either
successOf(out) == out.kind = "result"

isCancellation(errorName, signalAborted) == errorName = "AbortError" \/ signalAborted

isTimeout(errorName, signalAborted, tmo) ==
  isCancellation(errorName, signalAborted) /\ tmo > 0 /\ ~signalAborted

\* a catch block that forgets the messages consumed so far
errorResponseNoId(msgs, errorName, signalAborted, tmo) ==
  [kind |-> "error",
   text |-> IF isTimeout(errorName, signalAborted, tmo) THEN "Query timed out"
            ELSE IF isCancellation(errorName, signalAborted) THEN "Query cancelled by user"
            ELSE "Query failed",
   session_id |-> NoSid]

\* what the catch block returns
errorResponse(msgs, errorName, signalAborted, tmo) ==
  [kind |-> "error",
   text |-> IF isTimeout(errorName, signalAborted, tmo) THEN "Query timed out"
            ELSE IF isCancellation(errorName, signalAborted) THEN "Query cancelled by user"
            ELSE "Query failed",
   session_id |-> firstSessionId(msgs)]

NoOutcome == [kind |-> "none", text |-> "", session_id |-> NoSid]
Thrown == [kind |-> "thrown", text |-> "Prompt is required for Claude Code query", session_id |-> NoSid]
\* the rejection of `await import('@anthropic-ai/claude-code')`, which nothing catches
ImportFailed == [kind |-> "thrown", text |-> "Cannot find package", session_id |-> NoSid]

\* a clearTimeout that is never reached
clearTimeoutMissing(h) == h

\* clearTimeout(timeoutHandle)
clearTimeoutHandle(h) == IF h = "armed" THEN "cleared" ELSE h

\* a clearInterval that is never reached
clearIntervalMissing(armed) == armed

\* clearInterval(keepAlive): whether the interval is still armed afterwards
clearInterval(armed) == FALSE

(* ------------------------------- state -------------------------------- *)

NoOp == [op |-> "none", id |-> "null", ok |-> FALSE, status |-> "null", ids |-> {}]

\* the state once the server listens, built on manager `im` with maxSessions `max`, over
\* a database file that holds the sessions `tbl` and the messages `msgs`
InitWith(im, max, tbl, msgs) ==
  /\ now = 0
  /\ maxSessions = max
  /\ impl = im
  /\ sessions = tbl
  /\ msgTable = msgs
  /\ usedIds = DOMAIN tbl
  /\ lastOp = NoOp
  /\ claudeQuery \in BOOLEAN
  /\ rpc = [s \in Streams |-> "idle"]
  /\ target = [s \in Streams |-> "null"]
  /\ prompt = [s \in Streams |-> ""]
  /\ timeout = [s \in Streams |-> 0]
  /\ written = [s \in Streams |-> << >>]
  /\ ended = [s \in Streams |-> 0]
  /\ keepAlive = [s \in Streams |-> FALSE]
  /\ kaTicks = [s \in Streams |-> 0]
  /\ queryStarted = [s \in Streams |-> FALSE]
  /\ queryCompleted = [s \in Streams |-> FALSE]
  /\ aborted = [s \in Streams |-> FALSE]
  /\ fired = [s \in Streams |-> {}]
  /\ epc = [s \in Streams |-> "none"]
  /\ messages = [s \in Streams |-> << >>]
  /\ sequence = [s \in Streams |-> 0]
  /\ timeoutHandle = [s \in Streams |-> "none"]
  /\ handleAborted = [s \in Streams |-> FALSE]
  /\ listening = [s \in Streams |-> FALSE]
  /\ outcome = [s \in Streams |-> NoOutcome]
  /\ causes = [s \in Streams |-> << >>]
  /\ dropped = [s \in Streams |-> {}]

\* the state once the server listens over a new database file
InitFor(im, max) == InitWith(im, max, [i \in {} |-> NoOp], << >>)

Init == InitFor("sqlite", 2)

(* ------------------- REST routes on the session manager --------------- *)

\* POST /sessions -> sessionManager.createSession
\* (id is the value randomUUID() returns)
CreateSession(id) ==
  /\ id \notin usedIds
  /\ IF quotaCount(sessions, impl) >= maxSessions
     THEN /\ lastOp' = [NoOp EXCEPT !.op = "createSession"]
          /\ UNCHANGED <<sessions, usedIds>>
     ELSE /\ sessions' = createSessionRow(sessions, id, newSession(now))
          /\ usedIds' = usedIds \cup {id}
          /\ lastOp' = [op |-> "createSession", id |-> id, ok |-> TRUE,
                        status |-> "active", ids |-> {}]
  /\ UNCHANGED <<now, maxSessions, impl, msgTable, relayVars, execVars>>

\* GET /sessions/:id -> sessionManager.getSession
GetSession(id) ==
  /\ sessions' = getSessionStore(sessions, id, now)
  /\ lastOp' = [op |-> "getSession", id |-> id, ok |-> hasSession(sessions, id),
                status |-> IF hasSession(sessions, id)
                           THEN getSessionResult(sessions, id, now).status ELSE "null",
                ids |-> {}]
  /\ UNCHANGED <<now, maxSessions, impl, msgTable, usedIds, relayVars, execVars>>

\* GET /sessions -> sessionManager.listSessions
ListSessions ==
  /\ lastOp' = [op |-> "listSessions", id |-> "null", ok |-> TRUE, status |-> "null",
                ids |-> listSessionsResult(sessions, now)]
  /\ UNCHANGED <<now, maxSessions, impl, sessions, msgTable, usedIds, relayVars, execVars>>

\* DELETE /sessions/:id -> sessionManager.endSession
\* (lastOp.status keeps the status the session had when the call was made)
EndSession(id) ==
  /\ sessions' = IF impl = "sqlite" THEN endSessionStore(sessions, id)
                 ELSE memEndSession(sessions, id)
  /\ lastOp' = [op |-> "endSession", id |-> id, ok |-> endSessionResult(sessions, id),
                status |-> StatusOf(sessions, id), ids |-> {}]
  /\ UNCHANGED <<now, maxSessions, impl, msgTable, usedIds, relayVars, execVars>>

\* sessionManager.updateActivity(id) called on its own (the method is public; the
\* routes call it after their getSession); it returns nothing, and lastOp.status keeps
\* the status the session had when the call was made
UpdateActivity(id) ==
  /\ impl = "sqlite"
  /\ hasSession(sessions, id) => sessions[id].messageCount < MaxActivity
  /\ sessions' = updateActivity(sessions, id, now)
  /\ lastOp' = [op |-> "updateActivity", id |-> id, ok |-> TRUE,
                status |-> StatusOf(sessions, id), ids |-> {}]
  /\ UNCHANGED <<now, maxSessions, impl, msgTable, usedIds, relayVars, execVars>>

\* sessionManager.saveMessage(id, message, sequence) called on its own; lastOp.ok tells
\* whether the call returned (FALSE: it threw), `raises` whether stmt.run failed
SaveMessage(id, message, raises) ==
  /\ impl = "sqlite"
  /\ Len(msgTable) < MaxMsgs
  /\ msgTable' = IF saveMessageThrows(message) THEN msgTable
                 ELSE saveMessage(msgTable, sessions, id, message,
                                  getMessageCount(msgTable, id) + 1, "sdk", raises)
  /\ lastOp' = [op |-> "saveMessage", id |-> id, ok |-> ~saveMessageThrows(message),
                status |-> message.type, ids |-> {}]
  /\ UNCHANGED <<now, maxSessions, impl, sessions, usedIds, relayVars, execVars>>

\* store.saveMessage(id, message, n) called on its own, with the sequence number the
\* caller chooses; lastOp keeps the arguments
SaveMessageAt(id, message, n, raises) ==
  /\ impl = "sqlite"
  /\ Len(msgTable) < MaxRows
  /\ Len(SelectSeq(msgTable, LAMBDA r : r.messageType = "result")) < MaxMsgs
  /\ msgTable' = saveMessage(msgTable, sessions, id, message, n, "sdk", raises)
  /\ lastOp' = [op |-> "saveMessage", id |-> id, ok |-> TRUE, status |-> message.type,
                ids |-> {}, message |-> message, sequence |-> n]
  /\ UNCHANGED <<now, maxSessions, impl, sessions, usedIds, relayVars, execVars>>

\* the setInterval callback: cleanupExpiredSessions
Sweep ==
  /\ sessions' = IF impl = "sqlite" THEN cleanupExpiredSessions(sessions, now)
                 ELSE memCleanupExpiredSessions(sessions, now)
  /\ msgTable' = cascadeMessages(msgTable, sessions')
  /\ lastOp' = [op |-> "sweep", id |-> "null", ok |-> TRUE, status |-> "null",
                ids |-> DOMAIN sessions \ DOMAIN sessions']
  /\ UNCHANGED <<now, maxSessions, impl, usedIds, relayVars, execVars>>

\* the setInterval callback when the store's DELETE raises: nothing in the callback or
\* around it catches, so the error leaves the callback as an uncaught exception
SweepFail ==
  /\ impl = "sqlite"
  /\ lastOp' = [op |-> "sweep", id |-> "null", ok |-> FALSE,
                status |-> "uncaughtException", ids |-> {}]
  /\ UNCHANGED <<now, maxSessions, impl, sessions, msgTable, usedIds, relayVars, execVars>>

\* the Node process has not been ended by an uncaught exception
ProcessRunning == lastOp.status # "uncaughtException"

\* time passes
Tick ==
  /\ now < MaxTime
  /\ now' = now + 1
  /\ UNCHANGED <<maxSessions, impl, sessions, msgTable, usedIds, lastOp, relayVars, execVars>>

(* ----------------- POST /sessions/:id/stream (the relay) -------------- *)

Event(ev, seq, text, sid) == [ev |-> ev, seq |-> seq, text |-> text, sid |-> sid]

\* a route that opens the stream with a comment line instead of an event
connectedEventMissing(id) == Event("keepalive", 0, "", NoSid)

\* res.write(`event: connected\ndata: {"sessionId": id}\n\n`)
connectedEvent(id) == Event("connected", 0, "", id)

\* the values the clock can show at a second reading within one handler run
laterReadings(t) == {t} \cup {u \in {t + 1} : u <= MaxTime}

\* handler entry up to `await new Promise(resolve => setTimeout(resolve, 100))`
StreamRequest(s, id, bodyValid, p, tmo) ==
  /\ rpc[s] = "idle"
  /\ IF hasSession(sessions, id) /\ bodyValid
     THEN IF impl = "sqlite"
          THEN /\ sessions' = updateActivity(getSessionStore(sessions, id, now), id, now)
               /\ now' = now
          ELSE \E t2 \in laterReadings(now) :
                 /\ sessions' = memUpdateActivity(getSessionStore(sessions, id, now),
                                                  id, now, t2)
                 /\ now' = t2
     ELSE /\ sessions' = getSessionStore(sessions, id, now)
          /\ now' = now
  /\ IF ~hasSession(sessions, id)
     THEN /\ rpc' = [rpc EXCEPT ![s] = "http404"]
          /\ UNCHANGED <<target, prompt, timeout, written, keepAlive>>
     ELSE IF ~bodyValid
     THEN /\ rpc' = [rpc EXCEPT ![s] = "http400"]
          /\ UNCHANGED <<target, prompt, timeout, written, keepAlive>>
     ELSE /\ rpc' = [rpc EXCEPT ![s] = "delay"]
          /\ target' = [target EXCEPT ![s] = id]
          /\ prompt' = [prompt EXCEPT ![s] = p]
          /\ timeout' = [timeout EXCEPT ![s] = tmo]
          /\ written' = [written EXCEPT ![s] = <<connectedEvent(id)>>]
          /\ keepAlive' = [keepAlive EXCEPT ![s] = TRUE]
  /\ UNCHANGED <<maxSessions, impl, msgTable, usedIds, lastOp, ended, kaTicks,
                 queryStarted, queryCompleted, aborted, fired, execVars>>

\* the handler when sessionManager.updateActivity throws (the store fails) after
\* 'connected' was written and the keepalive interval armed: the outer catch logs and
\* calls handleError, which cannot answer any more (the headers are sent); the interval
\* is not cleared and the response is not ended
StreamSetupFail(s, id) ==
  /\ rpc[s] = "idle"
  /\ impl = "sqlite"
  /\ hasSession(sessions, id)
  /\ sessions' = getSessionStore(sessions, id, now)
  /\ rpc' = [rpc EXCEPT ![s] = "failed"]
  /\ target' = [target EXCEPT ![s] = id]
  /\ written' = [written EXCEPT ![s] = <<connectedEvent(id)>>]
  /\ keepAlive' = [keepAlive EXCEPT ![s] = TRUE]
  /\ UNCHANGED <<now, maxSessions, impl, msgTable, usedIds, lastOp, prompt, timeout, ended,
                 kaTicks, queryStarted, queryCompleted, aborted, fired, execVars>>

\* the chunk written once handleClaudeCodeQuery has returned `out`
completeEvent(out) ==
  Event("complete", 0, IF out.kind = "result" THEN out.text ELSE "[object]", out.session_id)

\* a route that stores whatever session_id the response carries
recordSessionIdAlways(tbl, id, out) == updateClaudeSessionId(tbl, id, out.session_id)

\* if (responseData.session_id) sessionManager.updateClaudeSessionId(id, session_id)
recordSessionId(tbl, id, out) ==
  IF out.session_id # NoSid THEN updateClaudeSessionId(tbl, id, out.session_id) ELSE tbl

\* handleClaudeCodeQuery returns `out`; the route's continuation runs in the same turn:
\* updateClaudeSessionId, the 'complete' event, queryCompleted, clearInterval, res.end()
ReturnToRelay(s, out) ==
  /\ outcome' = [outcome EXCEPT ![s] = out]
  /\ epc' = [epc EXCEPT ![s] = "returned"]
  /\ timeoutHandle' = [timeoutHandle EXCEPT ![s] = clearTimeoutHandle(timeoutHandle[s])]
  /\ sessions' = recordSessionId(sessions, target[s], out)
  /\ written' = [written EXCEPT ![s] = Append(@, completeEvent(out))]
  /\ queryCompleted' = [queryCompleted EXCEPT ![s] = TRUE]
  /\ keepAlive' = [keepAlive EXCEPT ![s] = clearInterval(@)]
  /\ ended' = [ended EXCEPT ![s] = @ + 1]
  /\ rpc' = [rpc EXCEPT ![s] = "done"]

\* handleClaudeCodeQuery throws err; the route's catch block
ThrowToRelay(s, err) ==
  /\ outcome' = [outcome EXCEPT ![s] = err]
  /\ epc' = [epc EXCEPT ![s] = "returned"]
  /\ queryCompleted' = [queryCompleted EXCEPT ![s] = TRUE]
  /\ written' = [written EXCEPT ![s] = Append(@, Event("error", 0, err.text, NoSid))]
  /\ keepAlive' = [keepAlive EXCEPT ![s] = clearInterval(@)]
  /\ ended' = [ended EXCEPT ![s] = @ + 1]
  /\ rpc' = [rpc EXCEPT ![s] = "done"]
  /\ UNCHANGED <<sessions, timeoutHandle>>

\* handleClaudeCodeQuery from the prompt check to the first `for await` suspension
ExecBegin(s) ==
  IF prompt[s] = ""
  THEN /\ ThrowToRelay(s, Thrown)
       /\ UNCHANGED listening
  ELSE /\ timeoutHandle' = [timeoutHandle EXCEPT ![s] = IF timeout[s] > 0 THEN "armed" ELSE "none"]
       /\ listening' = [listening EXCEPT ![s] = TRUE]
       /\ epc' = [epc EXCEPT ![s] = "iter"]
       /\ rpc' = [rpc EXCEPT ![s] = "query"]
       /\ UNCHANGED <<outcome, sessions, written, queryCompleted, keepAlive, ended>>

\* the 100 ms delay is over: queryStarted = true and handleClaudeCodeQuery is called
DelayDone(s) ==
  /\ rpc[s] = "delay"
  /\ queryStarted' = [queryStarted EXCEPT ![s] = TRUE]
  /\ IF claudeQuery
     THEN ExecBegin(s)
     ELSE /\ epc' = [epc EXCEPT ![s] = "import"]
          /\ rpc' = [rpc EXCEPT ![s] = "query"]
          /\ UNCHANGED <<outcome, sessions, written, queryCompleted, keepAlive, ended,
                         timeoutHandle, listening>>
  /\ UNCHANGED <<now, maxSessions, impl, msgTable, usedIds, lastOp, target, prompt, timeout,
                 kaTicks, aborted, fired, claudeQuery, messages, sequence,
                 handleAborted, causes, dropped>>

\* `await import('@anthropic-ai/claude-code')` resolves
ImportDone(s) ==
  /\ epc[s] = "import"
  /\ claudeQuery' = TRUE
  /\ ExecBegin(s)
  /\ UNCHANGED <<now, maxSessions, impl, msgTable, usedIds, lastOp, target, prompt, timeout,
                 kaTicks, queryStarted, aborted, fired, messages, sequence,
                 handleAborted, causes, dropped>>

\* `await import('@anthropic-ai/claude-code')` rejects: the agent cannot be loaded
ImportFail(s) ==
  /\ epc[s] = "import"
  /\ ThrowToRelay(s, ImportFailed)
  /\ UNCHANGED <<now, maxSessions, impl, msgTable, usedIds, lastOp, target, prompt, timeout,
                 kaTicks, queryStarted, aborted, fired, claudeQuery, messages, sequence,
                 handleAborted, listening, causes, dropped>>

\* step (b) of the message loop: the message is appended to the session's log
persistMessage(msgs, tbl, sid, message, seq, raises) ==
  saveMessage(msgs, tbl, sid, message, seq, "sdk", raises)

\* the sink: sendNotification of the route writes the 'message' event
sendNotification(out, message, seq) == Append(out, Event("message", seq, message.type, NoSid))

\* the agent's sequence yields `message`: one turn of the `for await` loop
AgentYield(s, message, raises) ==
  /\ epc[s] = "iter"
  /\ IF aborted[s]
     THEN /\ ReturnToRelay(s, completionResponse(messages[s], TRUE))
          /\ UNCHANGED <<messages, sequence, msgTable, dropped>>
     ELSE /\ Len(messages[s]) < MaxMsgs
          /\ messages' = [messages EXCEPT ![s] = Append(@, message)]
          /\ sequence' = [sequence EXCEPT ![s] = @ + 1]
          /\ msgTable' = IF impl = "sqlite"
                         THEN persistMessage(msgTable, sessions, target[s], message,
                                             sequence[s] + 1, raises)
                         ELSE msgTable
          /\ dropped' = [dropped EXCEPT ![s] =
                           IF impl = "sqlite" /\ msgTable' = msgTable
                           THEN @ \cup {sequence[s] + 1} ELSE @]
          /\ written' = [written EXCEPT ![s] = sendNotification(@, message, sequence[s] + 1)]
          /\ UNCHANGED <<outcome, epc, timeoutHandle, sessions, queryCompleted,
                         keepAlive, ended, rpc>>
  /\ UNCHANGED <<now, maxSessions, impl, usedIds, lastOp, target, prompt, timeout, kaTicks,
                 queryStarted, aborted, fired, claudeQuery, handleAborted, listening,
                 causes>>

\* a loop in which a failing sink ends the query through the executor's catch
AgentYieldSinkFatal(s, message) ==
  /\ epc[s] = "iter"
  /\ ~aborted[s]
  /\ Len(messages[s]) < MaxMsgs
  /\ messages' = [messages EXCEPT ![s] = Append(@, message)]
  /\ sequence' = [sequence EXCEPT ![s] = @ + 1]
  /\ ReturnToRelay(s, errorResponse(messages'[s], "Error", aborted[s], timeout[s]))
  /\ UNCHANGED <<now, maxSessions, impl, msgTable, usedIds, lastOp, target, prompt, timeout,
                 kaTicks, queryStarted, aborted, fired, claudeQuery, handleAborted, listening,
                 causes, dropped>>

\* one turn of the `for await` loop in which the sink fails (sendNotification rejects, or
\* the route's res.write throws): the message is pushed, numbered and persisted, the
\* failure is caught and logged, nothing is written, and the loop goes on
AgentYieldSinkFails(s, message) ==
  /\ epc[s] = "iter"
  /\ ~aborted[s]
  /\ Len(messages[s]) < MaxMsgs
  /\ messages' = [messages EXCEPT ![s] = Append(@, message)]
  /\ sequence' = [sequence EXCEPT ![s] = @ + 1]
  /\ msgTable' = IF impl = "sqlite"
                 THEN persistMessage(msgTable, sessions, target[s], message,
                                     sequence[s] + 1, FALSE)
                 ELSE msgTable
  /\ UNCHANGED <<now, maxSessions, impl, sessions, usedIds, lastOp, relayVars, claudeQuery,
                 epc, timeoutHandle, handleAborted, listening, outcome, causes, dropped>>

\* the agent's sequence is exhausted
AgentEnd(s) ==
  /\ epc[s] = "iter"
  /\ ReturnToRelay(s, completionResponse(messages[s], aborted[s]))
  /\ UNCHANGED <<now, maxSessions, impl, msgTable, usedIds, lastOp, target, prompt, timeout,
                 kaTicks, queryStarted, aborted, fired, claudeQuery, messages, sequence,
                 handleAborted, listening, causes, dropped>>

\* the agent raises an error named errorName instead of yielding
AgentThrow(s, errorName) ==
  /\ epc[s] = "iter"
  /\ ReturnToRelay(s, errorResponse(messages[s], errorName, aborted[s], timeout[s]))
  /\ UNCHANGED <<now, maxSessions, impl, msgTable, usedIds, lastOp, target, prompt, timeout,
                 kaTicks, queryStarted, aborted, fired, claudeQuery, messages, sequence,
                 handleAborted, listening, causes, dropped>>

\* the setTimeout callback of the executor: queryOptions.abortController.abort()
TimerFire(s) ==
  /\ timeoutHandle[s] = "armed"
  /\ timeoutHandle' = [timeoutHandle EXCEPT ![s] = "fired"]
  /\ handleAborted' = [handleAborted EXCEPT ![s] = TRUE]
  /\ causes' = [causes EXCEPT ![s] = Append(@, "timeout")]
  /\ UNCHANGED <<storeVars, relayVars, claudeQuery, epc, messages, sequence, listening,
                 outcome, dropped>>

\* a handleDisconnect whose every call reaches the executor's 'abort' listener
handleDisconnectRepeated(s) ==
  IF queryCompleted[s]
  THEN UNCHANGED <<keepAlive, aborted, timeoutHandle, handleAborted, causes>>
  ELSE /\ keepAlive' = [keepAlive EXCEPT ![s] = clearInterval(@)]
       /\ IF queryStarted[s] /\ ended[s] = 0
          THEN /\ aborted' = [aborted EXCEPT ![s] = TRUE]
               /\ causes' = [causes EXCEPT ![s] = Append(@, "caller")]
               /\ timeoutHandle' = [timeoutHandle EXCEPT ![s] = clearTimeoutHandle(@)]
               /\ handleAborted' = [handleAborted EXCEPT ![s] = listening[s]]
          ELSE UNCHANGED <<aborted, timeoutHandle, handleAborted, causes>>

\* handleDisconnect without the queryStarted test
handleDisconnectAlways(s) ==
  IF queryCompleted[s]
  THEN UNCHANGED <<keepAlive, aborted, timeoutHandle, handleAborted, causes>>
  ELSE /\ keepAlive' = [keepAlive EXCEPT ![s] = FALSE]
       /\ aborted' = [aborted EXCEPT ![s] = TRUE]
       /\ causes' = [causes EXCEPT ![s] = IF aborted[s] THEN @ ELSE Append(@, "caller")]
       /\ IF listening[s] /\ ~aborted[s]
          THEN /\ timeoutHandle' = [timeoutHandle EXCEPT ![s] = clearTimeoutHandle(@)]
               /\ handleAborted' = [handleAborted EXCEPT ![s] = TRUE]
          ELSE UNCHANGED <<timeoutHandle, handleAborted>>

\* handleDisconnect of the route, with the executor's 'abort' listener it may trigger
handleDisconnect(s) ==
  IF queryCompleted[s]
  THEN UNCHANGED <<keepAlive, aborted, timeoutHandle, handleAborted, causes>>
  ELSE /\ keepAlive' = [keepAlive EXCEPT ![s] = clearInterval(@)]
       /\ IF queryStarted[s] /\ ended[s] = 0
          THEN /\ aborted' = [aborted EXCEPT ![s] = TRUE]
               /\ causes' = [causes EXCEPT ![s] = IF aborted[s] THEN @ ELSE Append(@, "caller")]
               /\ IF listening[s] /\ ~aborted[s]
                  THEN /\ timeoutHandle' = [timeoutHandle EXCEPT ![s] = clearTimeoutHandle(@)]
                       /\ handleAborted' = [handleAborted EXCEPT ![s] = TRUE]
                  ELSE UNCHANGED <<timeoutHandle, handleAborted>>
          ELSE UNCHANGED <<aborted, timeoutHandle, handleAborted, causes>>

\* a transport event e (req 'close', req 'error', res 'close') is emitted
Transport(s, e) ==
  /\ rpc[s] \in {"delay", "query", "done", "failed"}
  /\ e \notin fired[s]
  /\ fired' = [fired EXCEPT ![s] = @ \cup {e}]
  /\ handleDisconnect(s)
  /\ UNCHANGED <<storeVars, rpc, target, prompt, timeout, written, ended, kaTicks,
                 queryStarted, queryCompleted, claudeQuery, epc, messages, sequence,
                 listening, outcome, dropped>>

ReqClose(s) == Transport(s, "req.close")
ReqError(s) == Transport(s, "req.error")
ResClose(s) == Transport(s, "res.close")

\* the setInterval callback of the route
KeepAliveTick(s) ==
  /\ keepAlive[s]
  /\ kaTicks[s] < MaxKeepAlive
  /\ kaTicks' = [kaTicks EXCEPT ![s] = @ + 1]
  /\ written' = [written EXCEPT ![s] = Append(@, Event("keepalive", 0, "", NoSid))]
  /\ UNCHANGED <<storeVars, rpc, target, prompt, timeout, ended, keepAlive,
                 queryStarted, queryCompleted, aborted, fired, execVars>>

(* ---------------------------- specifications -------------------------- *)

Timeouts == {0, 1}
Prompts == {"", "Hello"}
ErrorNames == {"AbortError", "Error"}

StreamStep(s, ids, msgs, faults) ==
  \/ \E id \in ids, v \in BOOLEAN, p \in Prompts, tmo \in Timeouts :
        StreamRequest(s, id, v, p, tmo)
  \/ DelayDone(s)
  \/ ImportDone(s)
  \/ ImportFail(s)
  \/ \E m \in msgs, raises \in faults : AgentYield(s, m, raises)
  \/ AgentEnd(s)
  \/ \E n \in ErrorNames : AgentThrow(s, n)
  \/ TimerFire(s)
  \/ ReqClose(s)
  \/ ReqError(s)
  \/ ResClose(s)
  \/ KeepAliveTick(s)

\* one stream against one session: the executor and the relay in full
Next ==
  \/ CreateSession("s1")
  \/ StreamStep(1, {"s1"}, Messages, {FALSE})

Spec == Init /\ [][Next]_vars

\* an agent that tolerates cancellation: once its abort handle is activated it ends its
\* sequence or raises
AgentTolerates(s) ==
  /\ handleAborted[s]
  /\ (AgentEnd(s) \/ \E n \in ErrorNames : AgentThrow(s, n))

\* what Node's event loop and the agent's tolerance guarantee: the 100 ms delay and the
\* dynamic import settle, an armed timer that is not cleared fires, and an agent whose
\* handle is activated reacts; an agent whose handle is not activated owes nothing
Fairness ==
  /\ WF_vars(DelayDone(1))
  /\ WF_vars(ImportDone(1) \/ ImportFail(1))
  /\ WF_vars(TimerFire(1))
  /\ WF_vars(AgentTolerates(1))

SpecLive == Init /\ [][Next]_vars /\ Fairness

\* one stream against one session whose store can fail during the setup
NextSetup ==
  \/ Next
  \/ StreamSetupFail(1, "s1")

SpecSetup == Init /\ [][NextSetup]_vars

\* the agent of the specifications with several executions: it answers or fails
FewMessages == {m \in Messages : m.type = "result"}

\* a /stream request whose client stays connected and whose agent runs to its end
PlainStreamStep(s, ids, msgs, faults) ==
  \/ \E id \in ids : StreamRequest(s, id, TRUE, "Hello", 0)
  \/ DelayDone(s)
  \/ ImportDone(s)
  \/ \E m \in msgs, raises \in faults : AgentYield(s, m, raises)
  \/ AgentEnd(s)

\* the session manager's routes, the clock and the sweep, around one /stream request
NextSessions ==
  \/ \E id \in SessionIds : CreateSession(id)
  \/ \E id \in SessionIds : GetSession(id)
  \/ ListSessions
  \/ \E id \in SessionIds : EndSession(id)
  \/ Sweep
  \/ Tick
  \/ PlainStreamStep(1, SessionIds, FewMessages, {FALSE})

SpecSessions == Init /\ [][NextSessions]_vars

\* several /stream requests, on the same session or on different ones
NextQueries ==
  \/ \E id \in SessionIds : CreateSession(id)
  \/ \E s \in Streams : PlainStreamStep(s, SessionIds, FewMessages, {FALSE})

SpecQueries == Init /\ [][NextQueries]_vars

\* one /stream request whose saveMessage calls can fail and whose client can leave,
\* with the clock and the sweep
NextFaulty ==
  \/ CreateSession("s1")
  \/ Sweep
  \/ Tick
  \/ PlainStreamStep(1, {"s1"}, FewMessages, BOOLEAN)
  \/ ReqClose(1)

SpecFaulty == Init /\ [][NextFaulty]_vars

\* either session manager, with a quota of one or two sessions: the session routes,
\* the clock and the sweep
Impls == {"sqlite", "memory"}
Quotas == {1, 2}
ManagerIds == {"s1", "s2", "s3"}

InitManagers == \E im \in Impls, max \in Quotas : InitFor(im, max)

NextManagers ==
  \/ \E id \in ManagerIds : CreateSession(id)
  \/ \E id \in ManagerIds : GetSession(id)
  \/ ListSessions
  \/ \E id \in ManagerIds : EndSession(id)
  \/ Sweep
  \/ Tick

SpecManagers == InitManagers /\ [][NextManagers]_vars

\* either session manager: the same routes, sweep and /stream request
SpecRemoval == InitManagers /\ [][NextSessions]_vars

\* either session manager: /stream requests on one session while time passes
NextActivity ==
  \/ CreateSession("s1")
  \/ GetSession("s1")
  \/ Tick
  \/ \E s \in Streams : PlainStreamStep(s, {"s1"}, FewMessages, {FALSE})

SpecActivity == InitManagers /\ [][NextActivity]_vars

\* the messages of an agent that announces its conversation id, or does not
IdMessages == {m \in Messages : m.type # "result"}

\* a /stream request whose agent can fail, time out or lose its client
QueryStep(s, ids, msgs, tmos) ==
  \/ \E id \in ids, tmo \in tmos : StreamRequest(s, id, TRUE, "Hello", tmo)
  \/ DelayDone(s)
  \/ ImportDone(s)
  \/ ImportFail(s)
  \/ \E m \in msgs : AgentYield(s, m, FALSE)
  \/ AgentEnd(s)
  \/ \E n \in ErrorNames : AgentThrow(s, n)
  \/ TimerFire(s)
  \/ ReqClose(s)

\* several queries on one session, with every kind of outcome
NextIds ==
  \/ CreateSession("s1")
  \/ QueryStep(1, {"s1"}, {m \in IdMessages : m.session_id # "sidB"}, Timeouts)
  \/ QueryStep(2, {"s1"}, {m \in IdMessages : m.session_id # "sidA"}, {0})

SpecIds == Init /\ [][NextIds]_vars

\* the store-backed manager whose cleanup task can meet a failing store
NextSweeps ==
  /\ ProcessRunning
  /\ \/ \E id \in SessionIds : CreateSession(id)
     \/ \E id \in SessionIds : GetSession(id)
     \/ \E id \in SessionIds : EndSession(id)
     \/ Sweep
     \/ SweepFail
     \/ Tick

SpecSweeps == Init /\ [][NextSweeps]_vars

\* the store-backed manager under activity updates, reads, ends and sweeps
NextTouch ==
  \/ \E id \in SessionIds : CreateSession(id)
  \/ \E id \in SessionIds : GetSession(id)
  \/ \E id \in SessionIds : UpdateActivity(id)
  \/ \E id \in SessionIds : EndSession(id)
  \/ Sweep
  \/ Tick

SpecTouch == Init /\ [][NextTouch]_vars

\* the store-backed manager asked to save messages, well-formed or not, with a store
\* that can fail
NextStore ==
  \/ \E id \in SessionIds : CreateSession(id)
  \/ \E id \in SessionIds, m \in FewMessages \cup {Malformed}, raises \in BOOLEAN :
        SaveMessage(id, m, raises)
  \/ Sweep
  \/ Tick

SpecStore == Init /\ [][NextStore]_vars

\* the assistant message the rows of earlier queries hold
Earlier == CHOOSE m \in Messages : m.type = "assistant" /\ m.text = "thinking"

\* the numbers of rows a session can hold when the server starts
PriorRows == 0..(MaxRows - 1)

\* a database file in which session s1 has k message rows, numbered 1..k
InitLog ==
  \E k \in PriorRows :
     InitWith("sqlite", 2, "s1" :> newSession(0),
              [i \in 1..k |-> [sessionId |-> "s1", messageType |-> Earlier.type,
                               content |-> stringify(Earlier), sequence |-> i,
                               source |-> "sdk"]])

\* result messages saved into a session's log, at its end or at its front
NextLog ==
  \E m \in FewMessages, n \in {1, getMessageCount(msgTable, "s1") + 1} :
     SaveMessageAt("s1", m, n, FALSE)

SpecLog == InitLog /\ [][NextLog]_vars

\* one /stream request whose sink can fail on any message
NextSink ==
  \/ CreateSession("s1")
  \/ PlainStreamStep(1, {"s1"}, Messages, {FALSE})
  \/ \E m \in Messages : AgentYieldSinkFails(1, m)

SpecSink == Init /\ [][NextSink]_vars

(* ------------- POST /sessions/:id/messages (non-streaming) ------------ *)

\* one HTTP answer: res.json(body) has status 200, handleError(res, code, text, status)
\* the status it is given
Http(status, code, text, sid) ==
  [ev |-> "http", seq |-> 0, status |-> status, code |-> code, text |-> text, sid |-> sid]

\* getErrorMessage(error).includes('timeout'), over the messages the executor can throw
\* with: neither 'Prompt is required for Claude Code query' nor the import failure has it
includesTimeout(text) == text \in {"timeout"}

\* res.json({messageId, response: responseData.result || responseData, sessionId})
messageResponse(out) ==
  Http(200, "", IF out.kind = "result" THEN out.text ELSE "{error: " \o out.text \o "}",
       out.session_id)

\* the route's catch block
messageError(text) ==
  IF includesTimeout(text) THEN Http(408, "REQUEST_TIMEOUT", text, NoSid)
  ELSE Http(500, "MESSAGE_SEND_FAILED", text, NoSid)

\* handleClaudeCodeQuery has returned `out` to the /messages route
ReturnToMessages(s, out) ==
  /\ outcome' = [outcome EXCEPT ![s] = out]
  /\ epc' = [epc EXCEPT ![s] = "returned"]
  /\ timeoutHandle' = [timeoutHandle EXCEPT ![s] = clearTimeoutHandle(timeoutHandle[s])]
  /\ sessions' = recordSessionId(sessions, target[s], out)
  /\ written' = [written EXCEPT ![s] = <<messageResponse(out)>>]
  /\ rpc' = [rpc EXCEPT ![s] = "done"]

\* handleClaudeCodeQuery has thrown err to the /messages route
ThrowToMessages(s, err) ==
  /\ outcome' = [outcome EXCEPT ![s] = err]
  /\ epc' = [epc EXCEPT ![s] = "returned"]
  /\ written' = [written EXCEPT ![s] = <<messageError(err.text)>>]
  /\ rpc' = [rpc EXCEPT ![s] = "done"]
  /\ UNCHANGED <<sessions, timeoutHandle>>

\* handleClaudeCodeQuery(args), called with no sink and no signal, from the prompt
\* check to the first `for await` suspension
MessagesExecBegin(s, p, tmo) ==
  IF p = ""
  THEN ThrowToMessages(s, Thrown)
  ELSE /\ timeoutHandle' = [timeoutHandle EXCEPT ![s] = IF tmo > 0 THEN "armed" ELSE "none"]
       /\ epc' = [epc EXCEPT ![s] = "iter"]
       /\ rpc' = [rpc EXCEPT ![s] = "query"]
       /\ UNCHANGED <<outcome, written>>

\* the handler from its entry to its answer or to the first suspension of the query
MessagesRequest(s, id, bodyValid, stream, p, tmo) ==
  /\ rpc[s] = "idle"
  /\ IF ~hasSession(sessions, id)
     THEN /\ sessions' = getSessionStore(sessions, id, now)
          /\ now' = now
          /\ rpc' = [rpc EXCEPT ![s] = "done"]
          /\ written' = [written EXCEPT ![s] = <<Http(404, "SESSION_NOT_FOUND", "", NoSid)>>]
          /\ UNCHANGED <<target, prompt, timeout, epc, timeoutHandle, outcome>>
     ELSE IF ~bodyValid
     THEN /\ sessions' = getSessionStore(sessions, id, now)
          /\ now' = now
          /\ rpc' = [rpc EXCEPT ![s] = "done"]
          /\ written' = [written EXCEPT ![s] = <<Http(400, "INVALID_REQUEST", "", NoSid)>>]
          /\ UNCHANGED <<target, prompt, timeout, epc, timeoutHandle, outcome>>
     ELSE /\ target' = [target EXCEPT ![s] = id]
          /\ prompt' = [prompt EXCEPT ![s] = p]
          /\ timeout' = [timeout EXCEPT ![s] = tmo]
          /\ \E t2 \in (IF impl = "sqlite" THEN {now} ELSE laterReadings(now)) :
             LET touched == IF impl = "sqlite"
                            THEN updateActivity(getSessionStore(sessions, id, now), id, now)
                            ELSE memUpdateActivity(getSessionStore(sessions, id, now),
                                                   id, now, t2)
             IN /\ now' = t2
                /\ IF stream
                   THEN /\ sessions' = touched
                        /\ rpc' = [rpc EXCEPT ![s] = "done"]
                        /\ written' = [written EXCEPT ![s] =
                                         <<Http(200, "", "Use SSE endpoint for streaming responses",
                                                NoSid)>>]
                        /\ UNCHANGED <<epc, timeoutHandle, outcome>>
                   ELSE IF ~claudeQuery
                   THEN /\ sessions' = touched
                        /\ epc' = [epc EXCEPT ![s] = "import"]
                        /\ rpc' = [rpc EXCEPT ![s] = "query"]
                        /\ UNCHANGED <<written, timeoutHandle, outcome>>
                   ELSE IF p = ""
                   THEN /\ sessions' = touched
                        /\ outcome' = [outcome EXCEPT ![s] = Thrown]
                        /\ epc' = [epc EXCEPT ![s] = "returned"]
                        /\ written' = [written EXCEPT ![s] = <<messageError(Thrown.text)>>]
                        /\ rpc' = [rpc EXCEPT ![s] = "done"]
                        /\ UNCHANGED timeoutHandle
                   ELSE /\ sessions' = touched
                        /\ timeoutHandle' = [timeoutHandle EXCEPT ![s] =
                                               IF tmo > 0 THEN "armed" ELSE "none"]
                        /\ epc' = [epc EXCEPT ![s] = "iter"]
                        /\ rpc' = [rpc EXCEPT ![s] = "query"]
                        /\ UNCHANGED <<outcome, written>>
  /\ UNCHANGED <<maxSessions, impl, msgTable, usedIds, lastOp, ended, keepAlive, kaTicks,
                 queryStarted, queryCompleted, aborted, fired, claudeQuery, messages,
                 sequence, handleAborted, listening, causes, dropped>>

\* `await import('@anthropic-ai/claude-code')` resolves during a /messages request
MessagesImportDone(s) ==
  /\ epc[s] = "import"
  /\ claudeQuery' = TRUE
  /\ MessagesExecBegin(s, prompt[s], timeout[s])
  /\ UNCHANGED <<now, maxSessions, impl, sessions, msgTable, usedIds, lastOp, target, prompt,
                 timeout, ended, keepAlive, kaTicks, queryStarted, queryCompleted, aborted,
                 fired, messages, sequence, handleAborted, listening, causes, dropped>>

\* `await import('@anthropic-ai/claude-code')` rejects during a /messages request
MessagesImportFail(s) ==
  /\ epc[s] = "import"
  /\ ThrowToMessages(s, ImportFailed)
  /\ UNCHANGED <<now, maxSessions, impl, msgTable, usedIds, lastOp, target, prompt, timeout,
                 ended, keepAlive, kaTicks, queryStarted, queryCompleted, aborted, fired,
                 claudeQuery, messages, sequence, handleAborted, listening, causes, dropped>>

\* one turn of the `for await` loop with no sink: the message is pushed and numbered
MessagesAgentYield(s, message) ==
  /\ epc[s] = "iter"
  /\ Len(messages[s]) < MaxMsgs
  /\ messages' = [messages EXCEPT ![s] = Append(@, message)]
  /\ sequence' = [sequence EXCEPT ![s] = @ + 1]
  /\ msgTable' = IF impl = "sqlite"
                 THEN persistMessage(msgTable, sessions, target[s], message,
                                     sequence[s] + 1, FALSE)
                 ELSE msgTable
  /\ UNCHANGED <<now, maxSessions, impl, sessions, usedIds, lastOp, relayVars, claudeQuery,
                 epc, timeoutHandle, handleAborted, listening, outcome, causes, dropped>>

\* the agent's sequence is exhausted during a /messages request
MessagesAgentEnd(s) ==
  /\ epc[s] = "iter"
  /\ ReturnToMessages(s, completionResponse(messages[s], FALSE))
  /\ UNCHANGED <<now, maxSessions, impl, msgTable, usedIds, lastOp, target, prompt, timeout,
                 ended, keepAlive, kaTicks, queryStarted, queryCompleted, aborted, fired,
                 claudeQuery, messages, sequence, handleAborted, listening, causes, dropped>>

\* the agent raises: an AbortError once the executor's timer has aborted it, or a plain
\* Error at any time
MessagesAgentThrow(s, errorName) ==
  /\ epc[s] = "iter"
  /\ errorName = "AbortError" => handleAborted[s]
  /\ ReturnToMessages(s, errorResponse(messages[s], errorName, FALSE, timeout[s]))
  /\ UNCHANGED <<now, maxSessions, impl, msgTable, usedIds, lastOp, target, prompt, timeout,
                 ended, keepAlive, kaTicks, queryStarted, queryCompleted, aborted, fired,
                 claudeQuery, messages, sequence, handleAborted, listening, causes, dropped>>

\* a /messages request, with the executor's timer
MessagesStep(s, ids) ==
  \/ \E id \in ids, v \in BOOLEAN, st \in BOOLEAN, p \in Prompts, tmo \in Timeouts :
        MessagesRequest(s, id, v, st, p, tmo)
  \/ MessagesImportDone(s)
  \/ MessagesImportFail(s)
  \/ \E m \in Messages : MessagesAgentYield(s, m)
  \/ MessagesAgentEnd(s)
  \/ \E n \in ErrorNames : MessagesAgentThrow(s, n)
  \/ TimerFire(s)

NextMessages ==
  \/ CreateSession("s1")
  \/ MessagesStep(1, {"s1", "s2"})

SpecMessages == Init /\ [][NextMessages]_vars

(* ------------------------ executor and relay claims ------------------- *)

Returned(s) == rpc[s] = "done" /\ outcome[s].kind \in {"result", "error"}
Delivered(s) == SelectSeq(written[s], LAMBDA e : e.ev = "message")
Terminals(s) == SelectSeq(written[s], LAMBDA e : e.ev \in {"complete", "error"})
Cancelled == "Query cancelled by user"
TimedOut == "Query timed out"

\* C1: once the caller's signal is activated, after k delivered messages, no further
\* message is delivered to the sink and the executor's outcome is "cancelled",
\* whatever the agent does next (yields, ends or raises) and whenever the timer fires.
C1_CancelStopsDelivery ==
  /\ [](\A s \in Streams : (Returned(s) /\ aborted[s]) => outcome[s].text = Cancelled)
  /\ [][\A s \in Streams : aborted[s] => Delivered(s)' = Delivered(s)]_vars

C1_Witness ==
  /\ Returned(1) /\ aborted[1] /\ outcome[1].text = Cancelled
  /\ Len(Delivered(1)) = MaxMsgs /\ Len(messages[1]) = MaxMsgs

\* C2: with two cancellation sources fired in one execution, the reported reason is
\* the reason of the first one.
C2_FirstCauseWins ==
  \A s \in Streams :
    (Returned(s) /\ Len(causes[s]) = 2) =>
       outcome[s].text = (IF causes[s][1] = "timeout" THEN TimedOut ELSE Cancelled)

\* C3: when the timeout timer has fired (and nothing else cancelled the execution)
\* the outcome is the failure "timed out", however the agent reacted.
C3_TimeoutReported ==
  \A s \in Streams :
    (Returned(s) /\ causes[s] = <<"timeout">>) =>
       (outcome[s].kind = "error" /\ outcome[s].text = TimedOut)

\* C4: on a stream whose executor was invoked at most one terminal event is written
\* and the transport is ended at most once; once the route is done exactly one of
\* each, the terminal event last; and nothing is written or ended after res.end().
C4_OneTerminalEvent ==
  /\ [](\A s \in Streams :
          /\ Len(Terminals(s)) <= 1 /\ ended[s] <= 1
          /\ (Len(Terminals(s)) = 1) <=> (ended[s] = 1)
          /\ epc[s] = "returned" =>
               /\ Len(Terminals(s)) = 1 /\ ended[s] = 1
               /\ written[s][Len(written[s])].ev \in {"complete", "error"})
  /\ [][\A s \in Streams :
          ended[s] > 0 => (written'[s] = written[s] /\ ended'[s] = ended[s])]_vars

C4_Witness ==
  /\ rpc[1] = "done" /\ ended[1] = 1 /\ kaTicks[1] = MaxKeepAlive
  /\ fired[1] = {"req.close", "req.error", "res.close"} /\ aborted[1]
  /\ Len(Delivered(1)) >= 1

\* C5: a failed outcome (cancelled, timed out, upstream failure) ends the stream with
\* an 'error' event; 'complete' is written only for a successful outcome.
C5_FailureIsErrorEvent ==
  \A s \in Streams :
    (Returned(s) /\ (outcome[s].kind = "error" \/ outcome[s].text = Cancelled)) =>
       written[s][Len(written[s])].ev = "error"

RowsOf(id) == FilterMsgs(msgTable, {id})
PersistedPairs(id) == [i \in 1..Len(RowsOf(id)) |-> <<RowsOf(id)[i].sequence, RowsOf(id)[i].messageType>>]
DeliveredPairs(s) == [i \in 1..Len(Delivered(s)) |-> <<Delivered(s)[i].seq, Delivered(s)[i].text>>]

\* C7: the message records of every session carry the sequence numbers 1, 2, ..., n
\* in creation order, with no gap and no duplicate, over all queries on the session.
C7_GaplessSequence ==
  \A id \in SessionIds : \A i \in 1..Len(RowsOf(id)) : RowsOf(id)[i].sequence = i

C9_StatusMonotonic ==
  [][\A id \in SessionIds :
       (hasSession(sessions, id) /\ hasSession(sessions', id)) =>
          \/ StatusOf(sessions', id) = StatusOf(sessions, id)
          \/ StatusOf(sessions, id) = "active"
             /\ StatusOf(sessions', id) \in {"expired", "ended"}]_vars

\* C10: an endSession(id) that returns true has removed the row of id (so that a
\* following getSession returns absent and a second endSession returns false); an
\* endSession that returns false was given an id with no row.
C10_EndRemovesRow ==
  lastOp.op = "endSession" =>
     /\ lastOp.ok => ~hasSession(sessions, lastOp.id)
     /\ ~lastOp.ok => ~hasSession(sessions, lastOp.id)

(* ------------------------------ quota claims -------------------------- *)

\* the step is a createSession call
CreateStep == lastOp'.op = "createSession" /\ (lastOp' # lastOp \/ usedIds' # usedIds)

\* the sessions with status active whose expiry has not passed at t
LiveIds(tbl, t) == {i \in DOMAIN tbl : tbl[i].status = "active" /\ tbl[i].expiresAt >= t}

\* C11: with maxSessions active sessions a createSession fails (quota) and creates
\* nothing; a createSession that follows a successful endSession of an active session
\* succeeds and adds an active row.
C11_QuotaAndRetry ==
  [][CreateStep =>
       /\ Cardinality(listSessionsResult(sessions, now)) >= maxSessions =>
             (~lastOp'.ok /\ sessions' = sessions /\ usedIds' = usedIds)
       /\ (lastOp.op = "endSession" /\ lastOp.ok /\ lastOp.status = "active") =>
             /\ lastOp'.ok
             /\ DOMAIN sessions' = DOMAIN sessions \cup {lastOp'.id}
             /\ StatusOf(sessions', lastOp'.id) = "active"]_vars

C11_Witness ==
  /\ maxSessions = 2 /\ now = 0
  /\ lastOp.op = "createSession" /\ lastOp.ok
  /\ Cardinality(usedIds) = maxSessions + 1
  /\ Cardinality(listSessionsResult(sessions, now)) = maxSessions

\* C12: createSession is rejected exactly when the sessions with status active and
\* an expiry that has not passed number maxSessions or more (an expired session that was not swept does
\* not count).
C12_QuotaCountsLiveSessions ==
  [][CreateStep =>
       (~lastOp'.ok <=> Cardinality(LiveIds(sessions, now)) >= maxSessions)]_vars

\* C13: in every state of the session table, every session has
\* expiresAt = lastActivity + TTL (at creation lastActivity = createdAt).
C13_ExpiryFollowsActivity ==
  \A id \in DOMAIN sessions :
     sessions[id].expiresAt = sessions[id].lastActivity + SessionTimeout

(* ------------------------ conversation id claims ---------------------- *)

\* C14: whatever the outcomes of the queries on a session, its claudeSessionId, once
\* set, is never null again; it only changes to another non-null value.
C14_SessionIdNeverCleared ==
  [][\A id \in SessionIds :
       (hasSession(sessions, id) /\ hasSession(sessions', id)
          /\ sessions[id].claudeSessionId # NoSid) =>
             sessions'[id].claudeSessionId # NoSid]_vars

C14_Witness ==
  /\ rpc[1] = "done" /\ rpc[2] = "done"
  /\ outcome[1].session_id = "sidA"
  /\ outcome[2].session_id = NoSid /\ outcome[2].text = Cancelled
  /\ sessions["s1"].claudeSessionId = "sidA"

\* the session_id of the first message of msgs that carries one
FirstCarrier(msgs) ==
  LET carriers == {i \in 1..Len(msgs) : msgs[i].session_id # NoSid} IN
  IF carriers = {} THEN NoSid
  ELSE msgs[CHOOSE i \in carriers : \A j \in carriers : i <= j].session_id

\* C15: whatever the outcome the executor returns (success, cancelled, timed out,
\* upstream failure), it reports the session_id of the first consumed message that
\* carries one.
C15_FirstIdReported ==
  \A s \in Streams : Returned(s) => outcome[s].session_id = FirstCarrier(messages[s])

C15_Witness ==
  /\ Returned(1) /\ outcome[1].kind = "error" /\ outcome[1].text = TimedOut
  /\ Len(messages[1]) = 2
  /\ messages[1][1].session_id = NoSid /\ messages[1][2].session_id = "sidA"
  /\ outcome[1].session_id = "sidA"

\* C16: given a prompt, the executor returns a terminal outcome and never throws to
\* its caller, whether the agent cannot be launched, yields, raises or ends, and
\* however cancellation and timeout interleave.
C16_NeverThrows ==
  \A s \in Streams :
     (epc[s] = "returned" /\ prompt[s] # "") => outcome[s].kind \in {"result", "error"}

(* --------------------- cancellation handle claims --------------------- *)

\* C17: once the execution's internal abortController has been activated (by the
\* caller's signal or by the timeout timer), no further message of the agent is
\* consumed or delivered, even if the agent goes on yielding.
C17_HandleStopsConsumption ==
  [][\A s \in Streams :
       handleAborted[s] =>
          (messages'[s] = messages[s] /\ Delivered(s)' = Delivered(s))]_vars

\* the number of times the caller's cancellation reached the execution
CallerAborts(s) == Len(SelectSeq(causes[s], LAMBDA c : c = "caller"))

\* C18: however many transport events activate the cancellation of one execution,
\* the abort takes effect once (a repeated activation changes nothing), the executor
\* returns one terminal outcome, which is never replaced, and the relay writes one
\* terminal event and ends the response once.
C18_IdempotentCancellation ==
  /\ [](\A s \in Streams :
          /\ CallerAborts(s) <= 1
          /\ (rpc[s] = "done" /\ aborted[s]) =>
                (Len(Terminals(s)) = 1 /\ ended[s] = 1 /\ outcome[s] # NoOutcome))
  /\ [][\A s \in Streams :
          /\ (fired'[s] # fired[s] /\ aborted[s]) =>
                /\ aborted'[s] /\ handleAborted'[s] = handleAborted[s]
                /\ causes'[s] = causes[s] /\ timeoutHandle'[s] = timeoutHandle[s]
          /\ outcome[s] # NoOutcome => outcome'[s] = outcome[s]]_vars

C18_Witness ==
  /\ rpc[1] = "done" /\ aborted[1] /\ CallerAborts(1) = 1
  /\ Cardinality(fired[1]) = 3 /\ kaTicks[1] = 0
  /\ Returned(1) /\ Len(Terminals(1)) = 1 /\ ended[1] = 1
  /\ timeoutHandle[1] = "cleared" /\ Len(messages[1]) = 1

(* ----------------------------- stream order claims ---------------------- *)

\* C19: on every stream the 'connected' event is the first thing written, once, and it
\* is written before the executor is invoked, hence before every 'message',
\* 'complete' and 'error' event of the stream.
C19_ConnectedFirst ==
  \A s \in Streams :
     /\ (epc[s] # "none" \/ queryStarted[s] \/ written[s] # << >>) =>
           /\ written[s] # << >>
           /\ written[s][1].ev = "connected" /\ written[s][1].sid = target[s]
     /\ \A i \in 2..Len(written[s]) : written[s][i].ev # "connected"

C19_Witness ==
  /\ rpc[1] = "done" /\ Len(written[1]) = 4
  /\ written[1][1].ev = "connected" /\ written[1][2].ev = "keepalive"
  /\ written[1][3].ev = "message" /\ written[1][4].ev = "complete"

\* the /stream requests on session id whose query has reached its terminal outcome
CompletedQueries(id) == {s \in Streams : target[s] = id /\ rpc[s] = "done"}

\* C20: the session's message counter is raised once per completed query, at the
\* moment the query reaches its terminal outcome: it always equals the number of
\* queries completed on the session.
C20_ActivityCountsCompleted ==
  \A id \in DOMAIN sessions :
     sessions[id].messageCount = Cardinality(CompletedQueries(id))

(* ------------------------------ sweep claims -------------------------- *)

\* the step is one cycle of the cleanup task
SweepStep == lastOp'.op = "sweep" /\ (lastOp' # lastOp \/ sessions' # sessions)

\* C21: a sweep cycle at time t removes every session with expiresAt < t whose status
\* is not ended, reports how many it removed, and leaves every other session (status
\* ended, or expiresAt >= t) as it was.
C21_SweepRemovesExpired ==
  [][SweepStep =>
       /\ DOMAIN sessions' \subseteq DOMAIN sessions
       /\ \A id \in DOMAIN sessions :
             IF sessions[id].expiresAt < now /\ sessions[id].status # "ended"
             THEN ~hasSession(sessions', id)
             ELSE hasSession(sessions', id) /\ sessions'[id] = sessions[id]
       /\ Cardinality(lastOp'.ids) = Cardinality(DOMAIN sessions) - Cardinality(DOMAIN sessions')
       /\ lastOp'.ids =
            {id \in DOMAIN sessions : sessions[id].expiresAt < now /\ sessions[id].status # "ended"}
    ]_vars

C21_Witness ==
  /\ lastOp.op = "sweep" /\ Cardinality(lastOp.ids) = 1
  /\ \E id \in DOMAIN sessions :
        sessions[id].status = "ended" /\ sessions[id].expiresAt < now
  /\ \E id \in DOMAIN sessions :
        sessions[id].status = "active" /\ sessions[id].expiresAt >= now

\* C22: a sweep cycle in which the store raises changes nothing and leaves the
\* process running (so that the cleanup task runs again at the next tick).
C22_SweepFailureContained ==
  (lastOp.op = "sweep" /\ ~lastOp.ok) => ProcessRunning

(* -------------------------- frame-effect claims ----------------------- *)

\* the step is a getSession call of the REST route
GetStep == lastOp'.op = "getSession" /\ (lastOp' # lastOp \/ sessions' # sessions)

\* tbl2 differs from tbl1 at most in the fields fs of the row of id
OnlyFieldsChange(tbl1, tbl2, id, fs) ==
  /\ DOMAIN tbl2 = DOMAIN tbl1
  /\ \A i \in DOMAIN tbl1 \ {id} : tbl2[i] = tbl1[i]
  /\ \A f \in DOMAIN tbl1[id] \ fs : tbl2[id][f] = tbl1[id][f]

\* C23: getSession(id) on a stored session with status active and expiry < now
\* returns it as expired and leaves the stored status expired, nothing else changed;
\* on a session with expiry >= now it returns the stored record and writes nothing;
\* on an absent id it returns absent and writes nothing.
C23_GetSessionLazyExpiry ==
  [][GetStep =>
       LET id == lastOp'.id IN
       IF ~hasSession(sessions, id) THEN ~lastOp'.ok /\ sessions' = sessions
       ELSE /\ lastOp'.ok
            /\ (sessions[id].status = "active" /\ sessions[id].expiresAt < now) =>
                  /\ lastOp'.status = "expired"
                  /\ sessions'[id].status = "expired"
                  /\ OnlyFieldsChange(sessions, sessions', id, {"status"})
            /\ sessions[id].expiresAt >= now =>
                  (sessions' = sessions /\ lastOp'.status = sessions[id].status)
    ]_vars

C23_Witness ==
  /\ lastOp.op = "getSession" /\ lastOp.ok /\ lastOp.status = "expired"
  /\ hasSession(sessions, lastOp.id)
  /\ sessions[lastOp.id].status = "expired" /\ sessions[lastOp.id].expiresAt < now
  /\ sessions[lastOp.id].createdAt = 0 /\ now = MaxTime

\* the step is an updateActivity call
UpdateStep == lastOp'.op = "updateActivity" /\ (lastOp' # lastOp \/ sessions' # sessions)

\* C24: updateActivity(id) on an absent session or on one whose status is not active
\* changes nothing in the store; on an active one it sets lastActivity to now,
\* expiresAt to now + TTL, raises messageCount by one and changes nothing else.
C24_UpdateActivityFrame ==
  [][UpdateStep =>
       LET id == lastOp'.id IN
       IF ~hasSession(sessions, id) \/ StatusOf(sessions, id) # "active"
       THEN sessions' = sessions
       ELSE /\ sessions'[id].lastActivity = now
            /\ sessions'[id].expiresAt = now + SessionTimeout
            /\ sessions'[id].messageCount = sessions[id].messageCount + 1
            /\ OnlyFieldsChange(sessions, sessions', id,
                                {"lastActivity", "expiresAt", "messageCount"})
    ]_vars

C24_Witness ==
  /\ lastOp.op = "updateActivity" /\ lastOp.status = "active" /\ now = 2
  /\ hasSession(sessions, lastOp.id)
  /\ sessions[lastOp.id].createdAt = 0 /\ sessions[lastOp.id].lastActivity = 2
  /\ sessions[lastOp.id].expiresAt = 2 + SessionTimeout
  /\ sessions[lastOp.id].messageCount = 2

\* C25: under any interleaving of activity updates, getSession calls, ends and sweep
\* cycles, with a clock that never goes back, a session's lastActivity, expiresAt and
\* messageCount never decrease and a status that left active never returns to it.
C25_SessionMovesForward ==
  [][\A id \in SessionIds :
       (hasSession(sessions, id) /\ hasSession(sessions', id)) =>
          /\ sessions'[id].lastActivity >= sessions[id].lastActivity
          /\ sessions'[id].expiresAt >= sessions[id].expiresAt
          /\ sessions'[id].messageCount >= sessions[id].messageCount
          /\ sessions[id].status # "active" => sessions'[id].status # "active"]_vars

C25_Witness ==
  /\ lastOp.op = "sweep" /\ lastOp.ids # {}
  /\ \E id \in DOMAIN sessions :
        /\ sessions[id].messageCount = 2
        /\ sessions[id].lastActivity > sessions[id].createdAt
        /\ sessions[id].expiresAt > sessions[id].createdAt + SessionTimeout
  /\ \E id \in DOMAIN sessions : sessions[id].status = "ended"

(* ------------------------- message store claims ---------------------- *)

\* C27: saveMessage never raises to its caller, whatever fails (the store, an unknown
\* session, a malformed message), and a failed call adds no record and changes none.
C27_SaveMessageNeverRaises ==
  /\ [](lastOp.op = "saveMessage" => lastOp.ok)
  /\ [][(lastOp'.op = "saveMessage" /\ lastOp' # lastOp /\ msgTable' # msgTable) =>
          (Len(msgTable') = Len(msgTable) + 1 /\ SubSeq(msgTable', 1, Len(msgTable)) = msgTable)
       ]_vars

(* ------------------------------ sink claims --------------------------- *)

\* the sequence numbers of the messages the sink accepted
DeliveredSeqs(s) == {Delivered(s)[i].seq : i \in 1..Len(Delivered(s))}

\* C28: a failure of the sink on one message is not fatal: every message is processed
\* and numbered, every later message is still delivered, in order and under its own
\* number, and the terminal outcome is the one the same messages give when all
\* deliveries succeed.
C28_SinkFailureNotFatal ==
  \A s \in Streams :
     /\ sequence[s] = Len(messages[s])
     /\ \A i \in 1..Len(Delivered(s)) :
           /\ Delivered(s)[i].seq \in 1..Len(messages[s])
           /\ Delivered(s)[i].text = messages[s][Delivered(s)[i].seq].type
           /\ \A j \in 1..Len(Delivered(s)) : i < j => Delivered(s)[i].seq < Delivered(s)[j].seq
     /\ Returned(s) => outcome[s] = completionResponse(messages[s], FALSE)

C28_Witness ==
  /\ Returned(1) /\ Len(messages[1]) = 2 /\ DeliveredSeqs(1) = {2}
  /\ messages[1][2].type = "result" /\ outcome[1].text = "Hi there"

(* ---------------------------- outcome claims -------------------------- *)

\* the query of stream s left its loop because the agent's sequence was exhausted
EndedNaturally(s) == Returned(s) /\ outcome[s].kind = "result" /\ ~aborted[s]

\* C29: when the agent's sequence ends naturally and its last message is of 'result'
\* kind, the outcome's summary is that message's result text and its success flag is the
\* negation of the message's error flag; every message yielded is counted and the
\* session's message counter has risen with the request.
C29_ResultSuppliesOutcome ==
  \A s \in Streams :
     (EndedNaturally(s) /\ messages[s] # << >> /\ messages[s][Len(messages[s])].type = "result")
       => LET last == messages[s][Len(messages[s])] IN
          /\ outcome[s].text = last.result
          /\ successOf(outcome[s]) = ~last.is_error
          /\ sequence[s] = Len(messages[s])

\* the part of C29 that does not depend on the last message: a request that ran to its
\* end counted every message and raised the session's counter by exactly one
C29_ScenarioCounts ==
  Returned(1) => /\ sequence[1] = Len(messages[1])
                 /\ hasSession(sessions, "s1") => sessions["s1"].messageCount = 1

\* C29 for result messages that carry a text and no error flag
C29_HiThere ==
  \A s \in Streams :
     (EndedNaturally(s) /\ messages[s] # << >> /\ messages[s][Len(messages[s])].type = "result"
        /\ messages[s][Len(messages[s])].result # "" /\ ~messages[s][Len(messages[s])].is_error)
       => outcome[s].text = messages[s][Len(messages[s])].result /\ successOf(outcome[s])

(* ------------------------- /messages claims --------------------------- *)

\* the /messages request of slot s has been answered
Answered(s) == rpc[s] = "done" /\ written[s] # << >> /\ written[s][1].ev = "http"

\* C30: when the query of a non-streaming message request exceeds its timeout, the API
\* answers with the REQUEST_TIMEOUT error (HTTP 408) and not with a success response.
C30_TimeoutAnswers408 ==
  \A s \in Streams :
     (Answered(s) /\ timeoutHandle[s] = "fired" /\ outcome[s].text = TimedOut)
       => written[s][1].status = 408 /\ written[s][1].code = "REQUEST_TIMEOUT"

(* --------------------------- listing claims --------------------------- *)

\* a step that is a call of listSessions
ListStep == lastOp'.op = "listSessions" /\ UNCHANGED <<now, sessions>>

\* C31: every session returned by listSessions has status active and an expiry that is
\* not before now, also in the window after a session's expiry has passed and before
\* a sweep or a getSession has flipped or removed it.
C31_ListedAreLive ==
  [][ListStep => \A i \in lastOp'.ids :
                    /\ hasSession(sessions, i)
                    /\ sessions[i].status = "active"
                    /\ sessions[i].expiresAt >= now]_vars

C31_Witness ==
  /\ lastOp.op = "listSessions"
  /\ lastOp.ids = {i \in DOMAIN sessions : sessions[i].status = "active"
                                             /\ sessions[i].expiresAt >= now}
  /\ lastOp.ids # {}
  /\ \E i \in DOMAIN sessions :
        sessions[i].status = "active" /\ sessions[i].expiresAt < now /\ i \notin lastOp.ids

(* --------------------------- round-trip claims ------------------------ *)

\* a step in which saveMessage has added a record
SavedStep == lastOp'.op = "saveMessage" /\ msgTable' # msgTable /\ "message" \in DOMAIN lastOp'

\* the number of records of session id in table msgs that sort before a new record
\* numbered n
SortBefore(msgs, id, n) ==
  LET rows == FilterMsgs(msgs, {id}) IN Cardinality({i \in 1..Len(rows) : rows[i].sequence <= n})

\* getMessages(id, 100, 0) on table `after` returns, at position pos, a record numbered n
\* with payload m
ReturnedAt(after, id, m, n, pos) ==
  LET res == getMessages(after, id, DefaultLimit, 0)
  IN  pos \in 1..Len(res) /\ res[pos].sequence = n /\ res[pos].content = m

\* getMessages(id, 100, 0) on table `after` returns at most 100 records, in ascending
\* sequence order
PageAscending(after, id) ==
  LET res == getMessages(after, id, DefaultLimit, 0)
  IN  /\ Len(res) <= DefaultLimit
      /\ \A p \in 1..(Len(res) - 1) : res[p].sequence <= res[p + 1].sequence

Executing(s) == epc[s] \in {"import", "iter"}

\* the relay of stream s has written its terminal event and ended the transport
Finished(s) ==
  /\ rpc[s] = "done" /\ outcome[s].kind # "none"
  /\ Terminals(s) # << >> /\ ended[s] > 0

\* C33: with an agent that tolerates cancellation, every execution whose caller signal
\* is activated or whose timeout (> 0) elapses eventually returns a terminal outcome,
\* and the relay eventually writes a terminal event and ends the transport.
C33_CancellationTerminates ==
  (Executing(1) /\ (aborted[1] \/ timeoutHandle[1] = "fired")) ~> Finished(1)

\* C33 for the executions that had registered their abort listener when the caller's
\* signal was activated
C33_ListeningTerminates ==
  (Executing(1) /\ (handleAborted[1] \/ timeoutHandle[1] = "fired")) ~> Finished(1)

(* --------------------------- concurrency claims ----------------------- *)

\* the request of stream s was admitted (it passed the session lookup and validation)
Admitted(s) == rpc[s] \in {"delay", "query", "done"}

\* C34: two queries started concurrently against the same session are both admitted
\* and can both run to a terminal outcome; the session's message counter has grown by
\* one per admitted request (no lost update), and once both have finished its upstream
\* id is an id one of the two reported (none if neither reported one).
C34_ConcurrentQueries ==
  hasSession(sessions, "s1") =>
    /\ sessions["s1"].messageCount = Cardinality({s \in Streams : Admitted(s)})
    /\ sessions["s1"].claudeSessionId # NoSid =>
          \E s \in Streams : rpc[s] = "done" /\ outcome[s].session_id = sessions["s1"].claudeSessionId
    /\ (\A s \in Streams : rpc[s] = "done") =>
          (sessions["s1"].claudeSessionId = NoSid <=>
             \A s \in Streams : outcome[s].session_id = NoSid)

C34_Witness ==
  /\ epc[1] = "iter" /\ epc[2] = "iter"
  /\ target[1] = "s1" /\ target[2] = "s1"
  /\ Len(messages[1]) = 1 /\ Len(messages[2]) = 1
  /\ sessions["s1"].messageCount = 2

\* both queries of C34 have finished, each having reported its own id
C34_BothFinished ==
  /\ Returned(1) /\ Returned(2)
  /\ outcome[1].session_id = "sidA" /\ outcome[2].session_id = "sidB"
  /\ sessions["s1"].messageCount = 2
  /\ sessions["s1"].claudeSessionId = "sidA"

(* ---------------------------- disconnect claims ----------------------- *)

\* the client of stream s went away (request and response both closed) and no transport
\* event found the query started
GoneBeforeStart(s) == {"req.close", "res.close"} \subseteq fired[s] /\ ~aborted[s]

\* C35: if the client disconnects after 'connected' was sent but before the executor
\* has started, the agent is not left running unobserved: either it is never invoked,
\* or its cancellation handle is activated.
C35_NoUnobservedAgent ==
  \A s \in Streams : (GoneBeforeStart(s) /\ epc[s] = "iter") => handleAborted[s]

(* ----------------------------- timeout claims ------------------------- *)

\* C36: the outcome 'timed out after N' is reported only for executions in which the
\* timeout timer actually fired: an abort error raised by the agent while a timeout is
\* configured but has not elapsed, and with no caller cancellation, is not reported as
\* a timeout.
C36_TimedOutOnlyIfFired ==
  \A s \in Streams :
     (Returned(s) /\ outcome[s].text = TimedOut) => timeoutHandle[s] = "fired"

(* ---------------------------- admission claims ------------------------ *)

\* C37: the relay invokes the agent only for a session whose status is active at
\* request time: a stream request on a session that getSession reports as expired or
\* ended is not admitted, so that it starts no query and updates nothing on the session.
C37_OnlyActiveAdmitted ==
  [][\A s \in Streams :
       (rpc[s] = "idle" /\ rpc'[s] = "delay") =>
          getSessionResult(sessions, target'[s], now).status = "active"]_vars

(* ---------------------------- keepalive claims ------------------------ *)

\* the handler of stream s is over: it answered, or it failed during the setup
HandlerOver(s) == rpc[s] \in {"done", "failed"}

\* C38: on every path by which a stream ends (complete, error, client disconnect, or a
\* failure during setup after the keepalive timer was armed), the keepalive timer is
\* cleared, so that no keepalive comment is written after the transport has been ended
\* or the client has gone.
C38_KeepAliveCleared ==
  /\ [](\A s \in Streams : (HandlerOver(s) \/ fired[s] # {}) => ~keepAlive[s])
  /\ [][\A s \in Streams :
          (ended[s] > 0 \/ fired[s] # {} \/ HandlerOver(s)) => kaTicks'[s] = kaTicks[s]]_vars

\* the same without the setup failure: the end of the query, its error and the
\* disconnection all clear the interval
C38_KeepAliveClearedOtherwise ==
  [][(\A s \in Streams : rpc'[s] # "failed") =>
       \A s \in Streams : /\ (rpc'[s] = "done" \/ fired'[s] # {}) => ~keepAlive'[s]
                          /\ (ended[s] > 0 \/ fired[s] # {}) => kaTicks'[s] = kaTicks[s]]_vars

(* ---------------------------- timer claims ---------------------------- *)

\* C39: when the executor returns, on any path (natural completion, caller cancellation,
\* timeout, agent error), its timeout timer is disarmed, so the timer never fires and
\* never activates the handle after the execution has ended.
C39_TimerDisarmedOnReturn ==
  /\ [](\A s \in Streams : epc[s] = "returned" => timeoutHandle[s] # "armed")
  /\ [][\A s \in Streams :
          epc[s] = "returned" => /\ timeoutHandle'[s] = timeoutHandle[s]
                                 /\ handleAborted'[s] = handleAborted[s]]_vars

\* an execution with a timeout has returned an answer before the timer fired, and
\* another has returned after the caller's cancellation
C39_Witness ==
  /\ epc[1] = "returned" /\ timeout[1] > 0 /\ timeoutHandle[1] = "cleared"
  /\ outcome[1].kind = "result" /\ ~handleAborted[1]

C39_WitnessCancelled ==
  /\ epc[1] = "returned" /\ timeout[1] > 0 /\ timeoutHandle[1] = "cleared"
  /\ aborted[1] /\ handleAborted[1]

(* ---------------------------- row creation claims --------------------- *)

\* C40: only createSession creates a session row: after a session has been removed (by
\* endSession or by the sweep), late updateActivity, updateClaudeSessionId or getSession
\* calls coming from a query that is still running leave it absent.
C40_OnlyCreateSessionCreates ==
  [][\A id \in SessionIds :
       (id \notin DOMAIN sessions /\ id \in DOMAIN sessions') =>
          (CreateStep /\ lastOp'.id = id /\ id \notin usedIds)]_vars

\* the session of a query that is still running has been removed, and a getSession
\* made meanwhile has found no row
C40_Witness ==
  /\ epc[1] = "iter" /\ target[1] \in usedIds \ DOMAIN sessions
  /\ lastOp.op = "getSession" /\ lastOp.id = target[1] /\ ~lastOp.ok

\* a query has returned a conversation id for a session that is no longer there
C40_LateReturn ==
  /\ rpc[1] = "done" /\ target[1] \in usedIds \ DOMAIN sessions
  /\ outcome[1].session_id # NoSid

====
